---- MODULE Spec2Model ----
(***************************************************************************)
(* Model of server.js: the in-memory device-token registry (tokensByUser,  *)
(* metaByToken) and the five request handlers that read and mutate it.     *)
(*                                                                         *)
(* Node runs each handler synchronously up to its first await, so every    *)
(* handler without an await is one action, and a send handler is two: the  *)
(* part up to the provider call, and the continuation that runs when the   *)
(* provider's promise settles.                                             *)
(*                                                                         *)
(* Spec is the whole server under any interleaving of requests.            *)
(* SpecRegistry is the three device routes alone, with every platform and  *)
(* clock reading, and with the latest calls of the helpers kept in history.*)
(***************************************************************************)
EXTENDS Integers, Sequences, FiniteSets, TLC

VARIABLES
    tokensByUser,   \* Map userId -> Set(token); a JS Set iterates in insertion order
    metaByToken,    \* Map token -> [userId, platform, updatedAt]
    inflight,       \* per request slot: the provider call the handler awaits, or Idle
    last,           \* the reply of the latest handler step: [op, status, body]
    history         \* the two latest calls of upsertToken and removeToken (SpecRegistry only)

vars == <<tokensByUser, metaByToken, inflight, last, history>>

----------------------------------------------------------------------------
(* Bounds of the model *)

\* the number of send requests that may await the provider at the same time
MaxInflight == 1
\* the wall clock, new Date(), reads a value in 0..MaxTime
MaxTime == 1

----------------------------------------------------------------------------
(* Values of request bodies *)

\* a field that is absent from the JSON body (destructuring yields undefined)
Undefined == "<undefined>"

Users == {"u1", "u2"}
Tokens == {"t1", "t2"}
UserInputs == Users \cup {"", Undefined}
TokenInputs == Tokens \cup {"", Undefined}
OldTokenInputs == Tokens \cup {"", Undefined}
PlatformInputs == {"ios", Undefined}
Times == 0..MaxTime
Slots == 1..MaxInflight

\* a test for undefined alone (v === undefined): the empty string passes
Falsy_UndefinedOnly(v) == v = Undefined

\* JS truthiness of a string-or-undefined value: !v
Falsy(v) == v = Undefined \/ v = ""
\* a || b
OrElse(a, b) == IF Falsy(a) THEN b ELSE a

----------------------------------------------------------------------------
(* Map and Set primitives *)

MapHas(m, k) == k \in DOMAIN m
MapSet(m, k, v) == [x \in (DOMAIN m) \cup {k} |-> IF x = k THEN v ELSE m[x]]
MapDelete(m, k) == [x \in (DOMAIN m) \ {k} |-> m[x]]
EmptyMap == [x \in {} |-> {}]

Elems(s) == {s[i] : i \in 1..Len(s)}
\* Array.prototype.push in place of Set.prototype.add: a second add is a second member
SetAdd_Pushes(s, t) == Append(s, t)

\* Set.prototype.add: a new element goes last, an element already there keeps its place
SetAdd(s, t) == IF t \in Elems(s) THEN s ELSE Append(s, t)
\* Set.prototype.delete
SetDelete(s, t) == SelectSeq(s, LAMBDA x : x # t)

----------------------------------------------------------------------------
(* The token store and its helpers (server.js 126-158) *)

\* the two Maps together, as the helpers read and write them
Registry == [tokensByUser |-> tokensByUser, metaByToken |-> metaByToken]

\* upsertToken that keeps the metadata of a token already known: first write wins
upsertToken_KeepsOwner(reg, userId, token, platform, now) ==
    LET tbu1 == IF ~MapHas(reg.tokensByUser, userId)
                THEN MapSet(reg.tokensByUser, userId, <<>>)
                ELSE reg.tokensByUser
        tbu2 == MapSet(tbu1, userId, SetAdd(tbu1[userId], token))
    IN  [tokensByUser |-> tbu2,
         metaByToken  |-> IF MapHas(reg.metaByToken, token)
                          THEN reg.metaByToken
                          ELSE MapSet(reg.metaByToken, token,
                                      [userId    |-> userId,
                                       platform  |-> OrElse(platform, "android"),
                                       updatedAt |-> now])]

\* upsertToken that takes the token out of the Set of its former owner first
upsertToken_Moves(reg, userId, token, platform, now) ==
    LET tbu0 == [u \in {x \in DOMAIN reg.tokensByUser :
                            x = userId \/ Elems(reg.tokensByUser[x]) # {token}} |->
                    IF u = userId THEN reg.tokensByUser[u]
                    ELSE SetDelete(reg.tokensByUser[u], token)]
        tbu1 == IF ~MapHas(tbu0, userId) THEN MapSet(tbu0, userId, <<>>) ELSE tbu0
        tbu2 == MapSet(tbu1, userId, SetAdd(tbu1[userId], token))
    IN  [tokensByUser |-> tbu2,
         metaByToken  |-> MapSet(reg.metaByToken, token,
                                 [userId    |-> userId,
                                  platform  |-> OrElse(platform, "android"),
                                  updatedAt |-> now])]

\* upsertToken without line 134: the token is not added to the user's Set
upsertToken_SkipsSet(reg, userId, token, platform, now) ==
    LET tbu1 == IF ~MapHas(reg.tokensByUser, userId)
                THEN MapSet(reg.tokensByUser, userId, <<>>)
                ELSE reg.tokensByUser
    IN  [tokensByUser |-> tbu1,
         metaByToken  |-> MapSet(reg.metaByToken, token,
                                 [userId    |-> userId,
                                  platform  |-> OrElse(platform, "android"),
                                  updatedAt |-> now])]

\* function upsertToken({ userId, token, platform }); now is new Date()
upsertToken(reg, userId, token, platform, now) ==
    LET tbu1 == IF ~MapHas(reg.tokensByUser, userId)
                THEN MapSet(reg.tokensByUser, userId, <<>>)
                ELSE reg.tokensByUser
        tbu2 == MapSet(tbu1, userId, SetAdd(tbu1[userId], token))
    IN  [tokensByUser |-> tbu2,
         metaByToken  |-> MapSet(reg.metaByToken, token,
                                 [userId    |-> userId,
                                  platform  |-> OrElse(platform, "android"),
                                  updatedAt |-> now])]

\* removeToken without line 146: the emptied Set stays under its key
removeToken_KeepsEmptySet(reg, userId, token) ==
    LET tbu == IF ~Falsy(userId) /\ MapHas(reg.tokensByUser, userId)
               THEN MapSet(reg.tokensByUser, userId,
                           SetDelete(reg.tokensByUser[userId], token))
               ELSE reg.tokensByUser
    IN  [tokensByUser |-> tbu,
         metaByToken  |-> MapDelete(reg.metaByToken, token)]

\* removeToken that deletes the metadata only of a token userId owns
removeToken_OwnerOnly(reg, userId, token) ==
    LET tbu == IF ~Falsy(userId) /\ MapHas(reg.tokensByUser, userId)
               THEN LET s == SetDelete(reg.tokensByUser[userId], token)
                    IN  IF Len(s) = 0
                        THEN MapDelete(reg.tokensByUser, userId)
                        ELSE MapSet(reg.tokensByUser, userId, s)
               ELSE reg.tokensByUser
    IN  [tokensByUser |-> tbu,
         metaByToken  |-> IF MapHas(reg.metaByToken, token)
                             /\ reg.metaByToken[token].userId = userId
                          THEN MapDelete(reg.metaByToken, token)
                          ELSE reg.metaByToken]

\* removeToken without line 148: the metadata entry stays
removeToken_KeepsMetadata(reg, userId, token) ==
    LET tbu == IF ~Falsy(userId) /\ MapHas(reg.tokensByUser, userId)
               THEN LET s == SetDelete(reg.tokensByUser[userId], token)
                    IN  IF Len(s) = 0
                        THEN MapDelete(reg.tokensByUser, userId)
                        ELSE MapSet(reg.tokensByUser, userId, s)
               ELSE reg.tokensByUser
    IN  [tokensByUser |-> tbu, metaByToken |-> reg.metaByToken]

\* removeToken that takes the token out of every user's Set
removeToken_Everywhere(reg, userId, token) ==
    LET keep == {u \in DOMAIN reg.tokensByUser :
                    Elems(reg.tokensByUser[u]) # {token}}
    IN  [tokensByUser |-> [u \in keep |-> SetDelete(reg.tokensByUser[u], token)],
         metaByToken  |-> MapDelete(reg.metaByToken, token)]

\* function removeToken({ userId, token })
removeToken(reg, userId, token) ==
    LET tbu == IF ~Falsy(userId) /\ MapHas(reg.tokensByUser, userId)
               THEN LET s == SetDelete(reg.tokensByUser[userId], token)
                    IN  IF Len(s) = 0
                        THEN MapDelete(reg.tokensByUser, userId)
                        ELSE MapSet(reg.tokensByUser, userId, s)
               ELSE reg.tokensByUser
    IN  [tokensByUser |-> tbu,
         metaByToken  |-> MapDelete(reg.metaByToken, token)]

\* tokensOf(userId) of the specification: the members of the user's Set
tokensOf(reg, userId) ==
    IF MapHas(reg.tokensByUser, userId) THEN Elems(reg.tokensByUser[userId]) ELSE {}

----------------------------------------------------------------------------
(* JSON values of a request body's data and android fields, each tagged   *)
(* with its typeof                                                         *)

\* a scalar: s, n or b holds the value, by type
JStr(s)    == [type |-> "string",  s |-> s,  n |-> 0, b |-> FALSE]
JNum(n)    == [type |-> "number",  s |-> "", n |-> n, b |-> FALSE]
JBool(b)   == [type |-> "boolean", s |-> "", n |-> 0, b |-> b]
\* a field of the body: absent, or an object given by its entries
JUndefined == [type |-> "undefined", v |-> EmptyMap]
JObj(f)    == [type |-> "object",    v |-> f]

\* !v of a field of the body
FalsyValue(j) == j.type = "undefined"

Digit == <<"0", "1", "2", "3", "4", "5", "6", "7", "8", "9">>

RECURSIVE NatToString(_)
NatToString(n) ==
    IF n < 10 THEN Digit[n + 1] ELSE NatToString(n \div 10) \o Digit[(n % 10) + 1]

\* JSON.stringify(v) of a number, a boolean or a string
JSONstringify(j) ==
    CASE j.type = "number"  -> IF j.n < 0 THEN "-" \o NatToString(-j.n) ELSE NatToString(j.n)
      [] j.type = "boolean" -> IF j.b THEN "true" ELSE "false"
      [] j.type = "string"  -> "\"" \o j.s \o "\""

\* the keys out holds after out[k] = <a string> for every key k of d: the
\* assignment to "__proto__" reaches the setter of Object.prototype, which
\* ignores a value that is not an object, so out gets no such property
AssignedKeys(d) == {k \in DOMAIN d : k # "__proto__"}

\* function ensureStringData(data): the entries of (data || {}), each value a string
ensureStringData(data) ==
    LET d == IF FalsyValue(data) THEN EmptyMap ELSE data.v
    IN  JObj([k \in AssignedKeys(d) |->
                IF d[k].type = "string" THEN d[k] ELSE JStr(JSONstringify(d[k]))])

DataInputs == { JUndefined, JObj([type |-> JStr("chat"), count |-> JNum(3)]) }

\* the data field of a send request in SpecPayload: absent, empty, strings and
\* non-strings, and an object whose JSON text has the key "__proto__"
PayloadInputs ==
    DataInputs \cup
    { JObj(EmptyMap),
      JObj([flag |-> JBool(TRUE), n |-> JNum(-12), s |-> JStr("3")]),
      JObj(("__proto__" :> JStr("x")) @@ [type |-> JStr("chat")]) }

\* the android field of a send request: left out by every request of the model
AndroidInputs == { JUndefined }

\* android || { priority: "high" }
androidOrDefault(android) ==
    IF FalsyValue(android) THEN JObj([priority |-> JStr("high")]) ELSE android

----------------------------------------------------------------------------
(* The push provider: getMessaging().sendEachForMulticast and .send *)

\* an error code is a string, kept as the sequence of its parts so that
\* String.prototype.includes can be computed
NotRegistered == <<"messaging/", "registration-token-not-registered">>
InvalidArgument == <<"messaging/", "invalid-argument">>
InternalError == <<"messaging/", "internal-error">>
ErrorCodes == {NotRegistered, InvalidArgument, InternalError}

NoError == [defined |-> FALSE, code |-> <<>>]
SendSuccess == [success |-> TRUE, error |-> NoError]
SendFailure(code) == [success |-> FALSE, error |-> [defined |-> TRUE, code |-> code]]
\* one SendResponse of a BatchResponse
SendResponses ==
    {SendSuccess} \cup {SendFailure(c) : c \in ErrorCodes}
        \cup {[success |-> FALSE, error |-> NoError]}

CountOf(rs, ok) == Cardinality({i \in 1..Len(rs) : rs[i].success = ok})

\* the BatchResponse values sendEachForMulticast may resolve with for a call
\* with these tokens: one response per token, in the order of the tokens
BatchResponses(tokens) ==
    {[responses    |-> rs,
      successCount |-> CountOf(rs, TRUE),
      failureCount |-> CountOf(rs, FALSE)] : rs \in [1..Len(tokens) -> SendResponses]}

MessageIds == {"msg-42", "msg-7"}

\* the errors a provider call may reject with
ProviderErrors ==
    {[name |-> "FirebaseMessagingError", message |-> "quota exceeded"],
     [name |-> "Error", message |-> ""]}

\* String(e) of an Error: Error.prototype.toString
StringOf(e) ==
    IF e.name = "" THEN e.message
    ELSE IF e.message = "" THEN e.name
    ELSE e.name \o ": " \o e.message

\* code.includes(needle), both strings given by their parts
Includes(code, needle) ==
    \E i \in 1..(Len(code) + 1) :
        /\ i + Len(needle) - 1 <= Len(code)
        /\ SubSeq(code, i, i + Len(needle) - 1) = needle

\* r.error?.code || ""
errorCode(r) == IF r.error.defined THEN r.error.code ELSE <<>>

\* the test of the cleanup loop: the token is not valid anymore
tokenNotValid(code) ==
    \/ Includes(code, <<"registration-token-not-registered">>)
    \/ Includes(code, <<"invalid-argument">>)

\* the callback of resp.responses.forEach, for the response r at index idx
cleanupOne(reg, tokens, r, idx) ==
    IF ~r.success /\ tokenNotValid(errorCode(r))
    THEN LET t == tokens[idx]
         IN  IF MapHas(reg.metaByToken, t) /\ ~Falsy(reg.metaByToken[t].userId)
             THEN removeToken(reg, reg.metaByToken[t].userId, t)
             ELSE reg
    ELSE reg

\* resp.responses.forEach(...) from index idx on
RECURSIVE cleanupFrom(_, _, _, _)
cleanupFrom(reg, tokens, responses, idx) ==
    IF idx > Len(responses) THEN reg
    ELSE cleanupFrom(cleanupOne(reg, tokens, responses[idx], idx), tokens, responses, idx + 1)

cleanupInvalidTokens(reg, tokens, responses) == cleanupFrom(reg, tokens, responses, 1)

----------------------------------------------------------------------------
(* Request handlers *)

Idle == [kind |-> "idle"]

FreeSlots == {s \in Slots : inflight[s] = Idle}
\* a request that reaches its provider call takes the first free slot
FirstFree == CHOOSE s \in FreeSlots : \A x \in FreeSlots : s <= x

\* res.status(status).json(body), sent by the handler of op
Reply(op, status, body) == [op |-> op, status |-> status, body |-> body]

\* the handler is suspended at its await: nothing has been sent yet
Awaiting(op) == [op |-> op, status |-> 0, body |-> [ok |-> FALSE, error |-> ""]]

Failed(error) == [ok |-> FALSE, error |-> error]
Ok == [ok |-> TRUE]

SetRegistry(reg) ==
    /\ tokensByUser' = reg.tokensByUser
    /\ metaByToken' = reg.metaByToken

\* a register handler that yields between the two Map writes of upsertToken:
\* its first step ends with tokensByUser written and metaByToken not yet
Register_HalfDone(userId, token, platform, now) ==
    /\ UNCHANGED inflight
    /\ IF Falsy(userId) \/ Falsy(token)
       THEN /\ UNCHANGED <<tokensByUser, metaByToken>>
            /\ last' = Reply("register", 400,
                             Failed("userId and token are required"))
       ELSE /\ tokensByUser' = upsertToken(Registry, userId, token,
                                           OrElse(platform, "android"), now).tokensByUser
            /\ UNCHANGED metaByToken
            /\ last' = Reply("register", 200, Ok)

\* app.post("/devices/register")
Register(userId, token, platform, now) ==
    /\ UNCHANGED inflight
    /\ IF Falsy(userId) \/ Falsy(token)
       THEN /\ UNCHANGED <<tokensByUser, metaByToken>>
            /\ last' = Reply("register", 400,
                             Failed("userId and token are required"))
       ELSE /\ SetRegistry(upsertToken(Registry, userId, token,
                                       OrElse(platform, "android"), now))
            /\ last' = Reply("register", 200, Ok)

\* the update handler without lines 232-234: oldToken is never removed
UpdateToken_SkipsRemove(userId, token, oldToken, platform, now) ==
    /\ UNCHANGED inflight
    /\ IF Falsy(userId) \/ Falsy(token)
       THEN /\ UNCHANGED <<tokensByUser, metaByToken>>
            /\ last' = Reply("update", 400,
                             Failed("userId and token are required"))
       ELSE /\ SetRegistry(upsertToken(Registry, userId, token,
                                       OrElse(platform, "android"), now))
            /\ last' = Reply("update", 200, Ok)

\* app.put("/devices/token")
UpdateToken(userId, token, oldToken, platform, now) ==
    /\ UNCHANGED inflight
    /\ IF Falsy(userId) \/ Falsy(token)
       THEN /\ UNCHANGED <<tokensByUser, metaByToken>>
            /\ last' = Reply("update", 400,
                             Failed("userId and token are required"))
       ELSE LET reg1 == IF ~Falsy(oldToken) /\ oldToken # token
                        THEN removeToken(Registry, userId, oldToken)
                        ELSE Registry
            IN  /\ SetRegistry(upsertToken(reg1, userId, token,
                                           OrElse(platform, "android"), now))
                /\ last' = Reply("update", 200, Ok)

\* app.delete("/devices/unregister")
Unregister(userId, token) ==
    /\ UNCHANGED inflight
    /\ IF Falsy(userId) \/ Falsy(token)
       THEN /\ UNCHANGED <<tokensByUser, metaByToken>>
            /\ last' = Reply("unregister", 400,
                             Failed("userId and token are required"))
       ELSE /\ SetRegistry(removeToken(Registry, userId, token))
            /\ last' = Reply("unregister", 200, Ok)

\* SendToUser without lines 309-311: a user without tokens is not turned away
SendToUser_NoTokenCheck(userId, data, android) ==
    /\ UNCHANGED <<tokensByUser, metaByToken>>
    /\ IF Falsy(userId) \/ FalsyValue(data)
       THEN /\ UNCHANGED inflight
            /\ last' = Reply("send", 400, Failed("userId and data are required"))
       ELSE /\ FreeSlots # {}
            /\ inflight' = [inflight EXCEPT ![FirstFree] =
                   [kind    |-> "multicast",
                    userId  |-> userId,
                    tokens  |-> IF MapHas(tokensByUser, userId)
                                THEN tokensByUser[userId] ELSE <<>>,
                    data    |-> ensureStringData(data),
                    android |-> androidOrDefault(android),
                    calls   |-> 1]]
            /\ last' = Awaiting("send")

\* app.post("/notifications/send"), up to the await of sendEachForMulticast
SendToUser(userId, data, android) ==
    /\ UNCHANGED <<tokensByUser, metaByToken>>
    /\ IF Falsy(userId) \/ FalsyValue(data)
       THEN /\ UNCHANGED inflight
            /\ last' = Reply("send", 400,
                             Failed("userId and data are required"))
       ELSE IF ~MapHas(tokensByUser, userId) \/ Len(tokensByUser[userId]) = 0
       THEN /\ UNCHANGED inflight
            /\ last' = Reply("send", 404,
                             Failed("No tokens for this user"))
       ELSE /\ FreeSlots # {}
            /\ inflight' = [inflight EXCEPT ![FirstFree] =
                   [kind    |-> "multicast",
                    userId  |-> userId,
                    tokens  |-> tokensByUser[userId],
                    data    |-> ensureStringData(data),
                    android |-> androidOrDefault(android),
                    calls   |-> 1]]
            /\ last' = Awaiting("send")

\* a cleanup loop that removes with the user of the request as the owner
RECURSIVE cleanupAsUser(_, _, _, _, _)
cleanupAsUser(reg, userId, tokens, responses, idx) ==
    IF idx > Len(responses) THEN reg
    ELSE cleanupAsUser(
            IF ~responses[idx].success /\ tokenNotValid(errorCode(responses[idx]))
            THEN removeToken(reg, userId, tokens[idx]) ELSE reg,
            userId, tokens, responses, idx + 1)

\* the continuation of the send handler with that cleanup loop
SendResolvedWith_DispatchUser(slot, resp) ==
    /\ inflight[slot].kind = "multicast"
    /\ SetRegistry(cleanupAsUser(Registry, inflight[slot].userId,
                                 inflight[slot].tokens, resp.responses, 1))
    /\ inflight' = [inflight EXCEPT ![slot] = Idle]
    /\ last' = Reply("send.resolved", 200,
                     [ok |-> TRUE,
                      successCount |-> resp.successCount,
                      failureCount |-> resp.failureCount])

\* seq as a list of n entries, undefined where seq has none
Pad(seq, n) == [i \in 1..n |-> IF i <= Len(seq) THEN seq[i] ELSE Undefined]

\* the continuation of a send handler that kept the Set itself instead of a
\* copy: the i-th response is matched with the i-th token the user has now
SendResolvedWith_LiveView(slot, resp) ==
    /\ inflight[slot].kind = "multicast"
    /\ SetRegistry(cleanupInvalidTokens(
           Registry,
           Pad(IF MapHas(tokensByUser, inflight[slot].userId)
               THEN tokensByUser[inflight[slot].userId] ELSE <<>>,
               Len(resp.responses)),
           resp.responses))
    /\ inflight' = [inflight EXCEPT ![slot] = Idle]
    /\ last' = Reply("send.resolved", 200,
                     [ok |-> TRUE,
                      successCount |-> resp.successCount,
                      failureCount |-> resp.failureCount])

\* the continuation of the send handler when the provider resolves with resp
SendResolvedWith(slot, resp) ==
    /\ inflight[slot].kind = "multicast"
    /\ SetRegistry(cleanupInvalidTokens(Registry, inflight[slot].tokens, resp.responses))
    /\ inflight' = [inflight EXCEPT ![slot] = Idle]
    /\ last' = Reply("send.resolved", 200,
                     [ok |-> TRUE,
                      successCount |-> resp.successCount,
                      failureCount |-> resp.failureCount])

\* the provider resolves the call of slot with one of its possible responses
SendResolved(slot) ==
    /\ inflight[slot].kind = "multicast"
    /\ \E resp \in BatchResponses(inflight[slot].tokens) : SendResolvedWith(slot, resp)

\* a catch block that calls the provider again instead of replying
SendRejected_Retries(slot, e) ==
    /\ inflight[slot].kind = "multicast"
    /\ inflight[slot].calls < 2
    /\ UNCHANGED <<tokensByUser, metaByToken>>
    /\ inflight' = [inflight EXCEPT ![slot].calls = @ + 1]
    /\ last' = Awaiting("send")

\* the catch block of the send handler when the provider rejects with e
SendRejected(slot, e) ==
    /\ inflight[slot].kind = "multicast"
    /\ UNCHANGED <<tokensByUser, metaByToken>>
    /\ inflight' = [inflight EXCEPT ![slot] = Idle]
    /\ last' = Reply("send.rejected", 500, Failed(StringOf(e)))

\* app.post("/notifications/sendToToken"), up to the await of send
SendToToken(token, data, android) ==
    /\ UNCHANGED <<tokensByUser, metaByToken>>
    /\ IF Falsy(token) \/ FalsyValue(data)
       THEN /\ UNCHANGED inflight
            /\ last' = Reply("sendToToken", 400,
                             Failed("token and data are required"))
       ELSE /\ FreeSlots # {}
            /\ inflight' = [inflight EXCEPT ![FirstFree] =
                   [kind    |-> "single",
                    token   |-> token,
                    data    |-> ensureStringData(data),
                    android |-> androidOrDefault(android),
                    calls   |-> 1]]
            /\ last' = Awaiting("sendToToken")

\* the continuation of the sendToToken handler when the provider resolves
SendToTokenResolved(slot, messageId) ==
    /\ inflight[slot].kind = "single"
    /\ UNCHANGED <<tokensByUser, metaByToken>>
    /\ inflight' = [inflight EXCEPT ![slot] = Idle]
    /\ last' = Reply("sendToToken.resolved", 200,
                     [ok |-> TRUE, messageId |-> messageId])

\* a catch block that takes the failed token out of the registry
SendToTokenRejected_Cleans(slot, e) ==
    /\ inflight[slot].kind = "single"
    /\ SetRegistry(LET t == inflight[slot].token
                   IN  IF MapHas(metaByToken, t)
                       THEN removeToken(Registry, metaByToken[t].userId, t)
                       ELSE Registry)
    /\ inflight' = [inflight EXCEPT ![slot] = Idle]
    /\ last' = Reply("sendToToken.rejected", 500, Failed(StringOf(e)))

\* the catch block of the sendToToken handler
SendToTokenRejected(slot, e) ==
    /\ inflight[slot].kind = "single"
    /\ UNCHANGED <<tokensByUser, metaByToken>>
    /\ inflight' = [inflight EXCEPT ![slot] = Idle]
    /\ last' = Reply("sendToToken.rejected", 500, Failed(StringOf(e)))

----------------------------------------------------------------------------
(* The server *)

\* no call of a helper yet
NoCall == [fn |-> "none", userId |-> Undefined, token |-> Undefined, platform |-> Undefined]

\* the state when app.listen returns: both Maps empty, no request yet
Init ==
    /\ tokensByUser = EmptyMap
    /\ metaByToken = EmptyMap
    /\ inflight = [s \in Slots |-> Idle]
    /\ last = Reply("listen", 0, Ok)
    /\ history = <<NoCall, NoCall>>

\* Every handler, under any interleaving.  What a token's metadata holds besides
\* its owner plays no part in a handler's control flow: here every request
\* leaves platform out and the clock reads 0 (SpecRegistry varies both).
Next ==
    \/ \E u \in UserInputs, t \in TokenInputs :
          Register(u, t, Undefined, 0) /\ UNCHANGED history
    \/ \E u \in UserInputs, t \in TokenInputs, o \in OldTokenInputs :
          UpdateToken(u, t, o, Undefined, 0) /\ UNCHANGED history
    \/ \E u \in UserInputs, t \in TokenInputs :
          Unregister(u, t) /\ UNCHANGED history
    \/ \E u \in UserInputs, d \in DataInputs, a \in AndroidInputs :
          SendToUser(u, d, a) /\ UNCHANGED history
    \/ \E s \in Slots : SendResolved(s) /\ UNCHANGED history
    \/ \E s \in Slots, e \in ProviderErrors : SendRejected(s, e) /\ UNCHANGED history
    \/ \E t \in TokenInputs, d \in DataInputs, a \in AndroidInputs :
          SendToToken(t, d, a) /\ UNCHANGED history
    \/ \E s \in Slots, m \in MessageIds :
          SendToTokenResolved(s, m) /\ UNCHANGED history
    \/ \E s \in Slots, e \in ProviderErrors :
          SendToTokenRejected(s, e) /\ UNCHANGED history

Spec == Init /\ [][Next]_vars

----------------------------------------------------------------------------
(* The registry requests alone, one after the other: requests that pass    *)
(* the handlers' validation, with every platform and clock reading;        *)
(* history records the helper calls the handlers make                      *)

UpsertCall(userId, token, platform) ==
    [fn |-> "upsertToken", userId |-> userId, token |-> token, platform |-> platform]
RemoveCall(userId, token) ==
    [fn |-> "removeToken", userId |-> userId, token |-> token, platform |-> Undefined]

\* the helper calls of the register handler, in order
registerCalls(userId, token, platform) ==
    IF Falsy(userId) \/ Falsy(token) THEN <<>>
    ELSE <<UpsertCall(userId, token, OrElse(platform, "android"))>>

\* the helper calls of the update handler, in order
updateCalls(userId, token, oldToken, platform) ==
    IF Falsy(userId) \/ Falsy(token) THEN <<>>
    ELSE (IF ~Falsy(oldToken) /\ oldToken # token
          THEN <<RemoveCall(userId, oldToken)>> ELSE <<>>)
         \o <<UpsertCall(userId, token, OrElse(platform, "android"))>>

\* the helper calls of the unregister handler
unregisterCalls(userId, token) ==
    IF Falsy(userId) \/ Falsy(token) THEN <<>> ELSE <<RemoveCall(userId, token)>>

\* history after these calls: the two latest, the latest last
Log(calls) ==
    history' = LET all == history \o calls
               IN  SubSeq(all, Len(all) - 1, Len(all))

NextRegistry ==
    \/ \E u \in Users, t \in Tokens, p \in PlatformInputs, now \in Times :
          Register(u, t, p, now) /\ Log(registerCalls(u, t, p))
    \/ \E u \in Users, t \in Tokens, o \in OldTokenInputs,
          p \in PlatformInputs, now \in Times :
          UpdateToken(u, t, o, p, now) /\ Log(updateCalls(u, t, o, p))
    \/ \E u \in Users, t \in Tokens :
          Unregister(u, t) /\ Log(unregisterCalls(u, t))

SpecRegistry == Init /\ [][NextRegistry]_vars

----------------------------------------------------------------------------
(* The send requests with every payload of PayloadInputs, over a registry   *)
(* that valid register requests fill                                        *)

NextPayload ==
    \/ \E u \in Users, t \in Tokens :
          Register(u, t, Undefined, 0) /\ UNCHANGED history
    \/ \E u \in Users, d \in PayloadInputs, a \in AndroidInputs :
          SendToUser(u, d, a) /\ UNCHANGED history
    \/ \E s \in Slots : SendResolved(s) /\ UNCHANGED history
    \/ \E s \in Slots, e \in ProviderErrors : SendRejected(s, e) /\ UNCHANGED history
    \/ \E t \in Tokens, d \in PayloadInputs, a \in AndroidInputs :
          SendToToken(t, d, a) /\ UNCHANGED history
    \/ \E s \in Slots, m \in MessageIds :
          SendToTokenResolved(s, m) /\ UNCHANGED history
    \/ \E s \in Slots, e \in ProviderErrors :
          SendToTokenRejected(s, e) /\ UNCHANGED history

SpecPayload == Init /\ [][NextPayload]_vars

----------------------------------------------------------------------------
(* Registry invariants *)

\* the users whose Set holds token t
holders(t) == {u \in DOMAIN tokensByUser : t \in Elems(tokensByUser[u])}

\* C1: in every reachable state a token is a member of some user's Set in
\* tokensByUser if and only if metaByToken holds an entry for it.
C1_IndexesInLockStep ==
    \A t \in Tokens : (holders(t) # {}) <=> (t \in DOMAIN metaByToken)

\* C2: in every reachable state each token is a member of at most one user's Set.
C2_AtMostOneHolder ==
    \A t \in Tokens : \A u1, u2 \in holders(t) : u1 = u2

\* C3: in every reachable state tokensByUser has a key for a user exactly when
\* the user's Set is non-empty: no key maps to an empty Set, so a removal of a
\* user's last token (unregister, update with oldToken, cleanup) deleted the key.
C3_NoEmptySet ==
    /\ DOMAIN tokensByUser \subseteq Users
    /\ \A u \in Users :
          (u \in DOMAIN tokensByUser) <=> (tokensOf(Registry, u) # {})
    /\ \A u \in DOMAIN tokensByUser : Len(tokensByUser[u]) > 0

\* C3 witness: the cleanup of a send removed the only token of the registry and
\* no key is left
C3_Witness ==
    /\ last.op = "send.resolved"
    /\ last.body.failureCount = 1
    /\ last.body.successCount = 0
    /\ tokensByUser = EmptyMap
    /\ metaByToken = EmptyMap

----------------------------------------------------------------------------
(* Dispatch *)

RegistryUnchanged == UNCHANGED <<tokensByUser, metaByToken>>

\* the failures the provider classifies as "token permanently invalid"
PermanentFailures == {SendFailure(NotRegistered), SendFailure(InvalidArgument)}

\* what C4 says of a send to call.userId that completes with resp
C4_Post(call, resp) ==
    /\ \A i \in 1..Len(call.tokens) :
          LET t == call.tokens[i]
          IN  IF resp.responses[i] \in PermanentFailures
              THEN /\ \/ call.userId \notin DOMAIN tokensByUser'
                      \/ t \notin Elems(tokensByUser'[call.userId])
                   /\ t \notin DOMAIN metaByToken'
              ELSE /\ \A u \in Users :
                         (u \in DOMAIN tokensByUser /\ t \in Elems(tokensByUser[u]))
                           <=> (u \in DOMAIN tokensByUser' /\ t \in Elems(tokensByUser'[u]))
                   /\ (t \in DOMAIN metaByToken) <=> (t \in DOMAIN metaByToken')
                   /\ t \in DOMAIN metaByToken => metaByToken'[t] = metaByToken[t]
    /\ last'.status = 200
    /\ last'.body.successCount = resp.successCount
    /\ last'.body.failureCount = resp.failureCount

\* C4: whenever a send-to-user for u completes successfully, every token of the
\* multicast list whose outcome is a permanently-invalid failure is then neither
\* in u's Set nor in metaByToken, every other token of the list is left in the
\* registry as it was, and the counts returned are the provider's.
C4_InvalidTokensRemoved ==
    [][\A s \in Slots :
          inflight[s].kind = "multicast" =>
             \A resp \in BatchResponses(inflight[s].tokens) :
                SendResolvedWith(s, resp) => C4_Post(inflight[s], resp)]_vars

\* C5: a send-to-user for a user without tokens is answered 404, calls the
\* provider for nothing and leaves both indexes unchanged; so no multicast is
\* ever in flight with an empty token list.
C5_NoTokensNoCall ==
    /\ [](\A s \in Slots :
             inflight[s].kind = "multicast" => Len(inflight[s].tokens) > 0)
    /\ [][\A u \in Users, d \in DataInputs \ {JUndefined}, a \in AndroidInputs :
             (tokensOf(Registry, u) = {} /\ SendToUser(u, d, a))
                => /\ last'.op = "send"
                   /\ last'.status = 404
                   /\ RegistryUnchanged
                   /\ UNCHANGED inflight]_vars

\* C5 witness: a send was answered 404 while another user has a token
C5_Witness ==
    /\ last.op = "send"
    /\ last.status = 404
    /\ tokensByUser # EmptyMap
    /\ \A s \in Slots : inflight[s] = Idle

\* the text the reply carries for each error of the provider
C6_ErrorText(e) ==
    IF e.message = "quota exceeded" THEN "FirebaseMessagingError: quota exceeded"
    ELSE "Error"

\* C6: when the provider's multicast call rejects, the request is answered 500
\* with the provider's error, the provider was called once for the request and
\* is not called again, and neither index changes.
C6_RejectedSendSurfaces ==
    [][\A s \in Slots, e \in ProviderErrors :
          SendRejected(s, e)
             => /\ last'.op = "send.rejected"
                /\ last'.status = 500
                /\ last'.body.ok = FALSE
                /\ last'.body.error = C6_ErrorText(e)
                /\ inflight[s].calls = 1
                /\ inflight' = [inflight EXCEPT ![s] = Idle]
                /\ RegistryUnchanged]_vars

\* C6 witness: a rejected send was answered 500 with the error's text while the
\* registry holds tokens
C6_Witness ==
    /\ last.op = "send.rejected"
    /\ last.status = 500
    /\ last.body.error = "FirebaseMessagingError: quota exceeded"
    /\ metaByToken # EmptyMap

\* C7: a send-to-token request never changes tokensByUser or metaByToken; when
\* the provider resolves, the reply carries its message id as it is, and when
\* it rejects, the reply carries the provider's error.
C7_SendToTokenFrame ==
    [][/\ last'.op \in {"sendToToken", "sendToToken.resolved", "sendToToken.rejected"}
          => RegistryUnchanged
       /\ \A s \in Slots, m \in MessageIds :
             SendToTokenResolved(s, m)
                => last'.status = 200 /\ last'.body.ok /\ last'.body.messageId = m
       /\ \A s \in Slots, e \in ProviderErrors :
             SendToTokenRejected(s, e)
                => last'.status = 500 /\ last'.body.error = C6_ErrorText(e)]_vars

\* C7 witness: a send to a registered token failed and the token is still registered
C7_Witness ==
    /\ last.op = "sendToToken.rejected"
    /\ last.status = 500
    /\ holders("t1") = {"u1"}
    /\ "t1" \in DOMAIN metaByToken
    /\ tokensOf(Registry, "u2") = {"t2"}

----------------------------------------------------------------------------
(* The helpers upsertToken and removeToken *)

\* the registry holds token t nowhere
Absent(reg, t) ==
    /\ t \notin DOMAIN reg.metaByToken
    /\ \A u \in DOMAIN reg.tokensByUser : t \notin Elems(reg.tokensByUser[u])

\* C8: remove(userId, token) always leaves the token without metadata, also
\* when the metadata names another owner; and on a token that is in neither
\* index it leaves both indexes exactly as they were.
C8_RemoveDeletesMetadata ==
    /\ [](/\ \A u \in Users, t \in Tokens :
               LET r == removeToken(Registry, u, t)
               IN  /\ t \notin DOMAIN r.metaByToken
                   /\ Absent(Registry, t) => r = Registry
          /\ history[2].fn = "removeToken"
                => history[2].token \notin DOMAIN metaByToken)
    /\ [][\A u \in Users, t \in Tokens :
             (Absent(Registry, t) /\ Unregister(u, t)) => RegistryUnchanged]_vars

\* C8 witness: t1 was registered by u1 and then removed with userId u2: its
\* metadata is gone (and u1's Set still holds it)
C8_Witness ==
    /\ history[1].fn = "upsertToken"
    /\ history[1].userId = "u1"
    /\ history[1].token = "t1"
    /\ history[2] = RemoveCall("u2", "t1")
    /\ "t1" \notin DOMAIN metaByToken
    /\ "t1" \in tokensOf(Registry, "u1")

\* C9: from every registry state, upsert(u, t, p) immediately followed by
\* remove(u, t) leaves t out of tokensOf(u) and without metadata.
C9_UpsertThenRemove ==
    /\ \A u \in Users, t \in Tokens, p \in PlatformInputs, now \in Times :
          LET r == removeToken(upsertToken(Registry, u, t, p, now), u, t)
          IN  /\ t \notin tokensOf(r, u)
              /\ t \notin DOMAIN r.metaByToken
    /\ \A u \in Users, t \in Tokens :
          (/\ history[1].fn = "upsertToken"
           /\ history[1].userId = u
           /\ history[1].token = t
           /\ history[2] = RemoveCall(u, t))
             => /\ t \notin tokensOf(Registry, u)
                /\ t \notin DOMAIN metaByToken

\* C9 witness: the two latest helper calls were upsert(u1, t1, ios) and
\* remove(u1, t1), made while u2 has a token of its own
C9_Witness ==
    /\ history = <<UpsertCall("u1", "t1", "ios"), RemoveCall("u1", "t1")>>
    /\ "t1" \notin tokensOf(Registry, "u1")
    /\ "t1" \notin DOMAIN metaByToken
    /\ "t2" \in tokensOf(Registry, "u2")

\* the metadata maps m1 and m2 differ at most in the updatedAt of token t
SameButTime(m1, m2, t) ==
    /\ DOMAIN m1 = DOMAIN m2
    /\ \A k \in DOMAIN m1 :
          IF k = t
          THEN m1[k].userId = m2[k].userId /\ m1[k].platform = m2[k].platform
          ELSE m1[k] = m2[k]

\* C10: upsert is idempotent up to the timestamp: from every registry state, a
\* second upsert with the same userId, token and platform leaves tokensByUser
\* and the token's metadata owner and platform as the first left them.
C10_UpsertIdempotent ==
    /\ [](\A u \in Users, t \in Tokens, p \in PlatformInputs, n1, n2 \in Times :
             LET r1 == upsertToken(Registry, u, t, p, n1)
                 r2 == upsertToken(r1, u, t, p, n2)
             IN  /\ r2.tokensByUser = r1.tokensByUser
                 /\ SameButTime(r1.metaByToken, r2.metaByToken, t))
    /\ [][(history'[2].fn = "upsertToken" /\ history'[1] = history'[2])
             => /\ tokensByUser' = tokensByUser
                /\ SameButTime(metaByToken, metaByToken', history'[2].token)]_vars

\* C10 witness: upsert(u1, t1, ios) was called twice in a row and the metadata
\* carries the latest clock reading
C10_Witness ==
    /\ history = <<UpsertCall("u1", "t1", "ios"), UpsertCall("u1", "t1", "ios")>>
    /\ tokensByUser["u1"] = <<"t1">>
    /\ metaByToken["t1"] = [userId |-> "u1", platform |-> "ios", updatedAt |-> MaxTime]

----------------------------------------------------------------------------
(* Re-registration and update *)

\* C11: from every registry state, upsert(u, t, p) followed by upsert(u2, t, p)
\* with u # u2 leaves u2 as the owner in the metadata of t: the last write wins.
C11_LastWriteWins ==
    /\ \A u, u2 \in Users, t \in Tokens, p \in PlatformInputs, n1, n2 \in Times :
          u # u2 =>
             LET r == upsertToken(upsertToken(Registry, u, t, p, n1), u2, t, p, n2)
             IN  /\ t \in DOMAIN r.metaByToken
                 /\ r.metaByToken[t].userId = u2
    /\ (/\ history[1].fn = "upsertToken"
        /\ history[2].fn = "upsertToken"
        /\ history[1].token = history[2].token
        /\ history[1].platform = history[2].platform
        /\ history[1].userId # history[2].userId)
          => /\ history[2].token \in DOMAIN metaByToken
             /\ metaByToken[history[2].token].userId = history[2].userId

\* C11 witness: t1 was upserted for u1 and then, with the same platform, for u2,
\* and its metadata names u2
C11_Witness ==
    /\ history = <<UpsertCall("u1", "t1", "ios"), UpsertCall("u2", "t1", "ios")>>
    /\ metaByToken["t1"].userId = "u2"

\* the registry after the step
RegistryNext == [tokensByUser |-> tokensByUser', metaByToken |-> metaByToken']

\* no user lost a token and no token lost its metadata in the step
NothingRemoved ==
    /\ \A u \in Users : tokensOf(Registry, u) \subseteq tokensOf(RegistryNext, u)
    /\ DOMAIN metaByToken \subseteq DOMAIN metaByToken'

\* C12: an update request with an oldToken that is present and differs from
\* token does remove(userId, oldToken) and then upsert(userId, token, platform)
\* in one step: after it oldToken is not in the user's Set and has no metadata,
\* token is in the user's Set and its metadata names userId.  With oldToken
\* absent or equal to token the step is the upsert alone and removes nothing.
C12_UpdateReplacesOldToken ==
    [][\A u \in Users, t \in Tokens, p \in PlatformInputs :
          \* the step of an update request logs its upsert as the latest call
          history'[2] = UpsertCall(u, t, OrElse(p, "android")) =>
             \A o \in OldTokenInputs, now \in Times :
                UpdateToken(u, t, o, p, now) =>
                   IF o \in Tokens /\ o # t
                   THEN /\ RegistryNext =
                              upsertToken(removeToken(Registry, u, o), u, t, p, now)
                        /\ o \notin tokensOf(RegistryNext, u)
                        /\ o \notin DOMAIN metaByToken'
                        /\ t \in tokensOf(RegistryNext, u)
                        /\ metaByToken'[t].userId = u
                   ELSE /\ RegistryNext = upsertToken(Registry, u, t, p, now)
                        /\ NothingRemoved]_vars

\* C12 witness: u1 replaced its token t1 by t2 in one update request
C12_Witness ==
    /\ last = Reply("update", 200, Ok)
    /\ history = <<RemoveCall("u1", "t1"), UpsertCall("u1", "t2", "ios")>>
    /\ tokensByUser = [u \in {"u1"} |-> <<"t2">>]
    /\ DOMAIN metaByToken = {"t2"}
    /\ metaByToken["t2"].userId = "u1"

----------------------------------------------------------------------------
(* Interleaving *)

\* the registries one whole call of removeToken makes of reg
OneRemove(reg) == {removeToken(reg, u, t) : u \in Users, t \in Tokens}

\* the registries one whole call of upsertToken or removeToken makes of reg
OneCall(reg) ==
    {upsertToken(reg, u, t, p, now) :
        u \in Users, t \in Tokens, p \in PlatformInputs, now \in Times}
      \cup OneRemove(reg)

\* the step made of the registry what whole calls make of it: none, one, or a
\* remove and one more (update makes two calls, the cleanup of a send one
\* remove per token of its list)
WholeCalls ==
    \/ RegistryUnchanged
    \/ RegistryNext \in OneCall(Registry)
    \/ \E r \in OneRemove(Registry) : RegistryNext \in OneCall(r)

\* C13: under any interleaving every step of a handler (a whole handler, or
\* the continuation of a send) turns the registry into what whole calls of
\* upsertToken and removeToken make of it, so no step starts from a half-done
\* call; a register step is exactly one upsert and an unregister step exactly
\* one remove, so of a register and an unregister of the same (userId, token)
\* the one that runs last decides: the token is registered to userId, or it is
\* out of the user's Set and without metadata (and in no Set at all when no
\* other user held it).
C13_AtomicMutations ==
    [][/\ WholeCalls
       /\ \A u \in Users, t \in Tokens :
             /\ Register(u, t, Undefined, 0)
                   => /\ RegistryNext = upsertToken(Registry, u, t, "android", 0)
                      /\ t \in tokensOf(RegistryNext, u)
                      /\ metaByToken'[t].userId = u
             /\ Unregister(u, t)
                   => /\ RegistryNext = removeToken(Registry, u, t)
                      /\ t \notin tokensOf(RegistryNext, u)
                      /\ t \notin DOMAIN metaByToken'
                      /\ holders(t) \subseteq {u} => Absent(RegistryNext, t)]_vars

\* C13 witness: while a send to u1 with t1 is in flight, t1 was unregistered
\* and is gone from the registry, another user's token is there
C13_Witness ==
    /\ last = Reply("unregister", 200, Ok)
    /\ \E s \in Slots :
          /\ inflight[s].kind = "multicast"
          /\ inflight[s].userId = "u1"
          /\ inflight[s].tokens = <<"t1">>
    /\ Absent(Registry, "t1")
    /\ tokensOf(Registry, "u2") = {"t2"}

----------------------------------------------------------------------------
(* Validation at the boundary *)

\* a field the request lacks or gives as the empty string
Missing == {"", Undefined}

\* the step of handler op answered 400 and changed neither index nor called
\* the provider
Rejected(op) ==
    /\ last'.op = op
    /\ last'.status = 400
    /\ last'.body.ok = FALSE
    /\ RegistryUnchanged
    /\ UNCHANGED inflight

\* no missing or empty userId or token anywhere in the registry
NoEmptyEntry ==
    /\ DOMAIN tokensByUser \cap Missing = {}
    /\ DOMAIN metaByToken \cap Missing = {}
    /\ \A u \in DOMAIN tokensByUser : Elems(tokensByUser[u]) \cap Missing = {}
    /\ \A t \in DOMAIN metaByToken : metaByToken[t].userId \notin Missing

\* C14: a register, update or unregister request without userId or token
\* (missing or empty) is answered 400 and changes neither index; a send
\* request without its userId (its token, for send-to-token) or without data
\* is answered 400 with no provider call; so the registry never holds an empty
\* or missing userId or token as a key, a member or an owner.
C14_InvalidRequestsRejected ==
    /\ []NoEmptyEntry
    /\ [][/\ last'.op = "register" =>
                \A u \in UserInputs, t \in TokenInputs :
                   (u \in Missing \/ t \in Missing) /\ Register(u, t, Undefined, 0)
                      => Rejected("register")
          /\ last'.op = "update" =>
                \A u \in UserInputs, t \in TokenInputs, o \in OldTokenInputs :
                   (u \in Missing \/ t \in Missing) /\ UpdateToken(u, t, o, Undefined, 0)
                      => Rejected("update")
          /\ last'.op = "unregister" =>
                \A u \in UserInputs, t \in TokenInputs :
                   (u \in Missing \/ t \in Missing) /\ Unregister(u, t)
                      => Rejected("unregister")
          /\ last'.op = "send" =>
                \A u \in UserInputs, d \in DataInputs, a \in AndroidInputs :
                   (u \in Missing \/ d = JUndefined) /\ SendToUser(u, d, a)
                      => Rejected("send")
          /\ last'.op = "sendToToken" =>
                \A t \in TokenInputs, d \in DataInputs, a \in AndroidInputs :
                   (t \in Missing \/ d = JUndefined) /\ SendToToken(t, d, a)
                      => Rejected("sendToToken")]_vars

\* C14 witness: a registry request was answered 400 while the registry holds a
\* token and a provider call is in flight, both as they were
C14_Witness ==
    /\ last = Reply("unregister", 400, Failed("userId and token are required"))
    /\ tokensByUser = [u \in {"u1"} |-> <<"t1">>]
    /\ DOMAIN metaByToken = {"t1"}
    /\ \E s \in Slots : inflight[s].kind = "multicast"

----------------------------------------------------------------------------
(* Payload normalization *)

\* the entries of a data field: none when the field is absent
entriesOf(d) == IF d = JUndefined THEN EmptyMap ELSE d.v

\* out has the keys of d, the string values of d as they are and the JSON text
\* of every other value
Normalized(d, out) ==
    /\ out.type = "object"
    /\ DOMAIN out.v = DOMAIN entriesOf(d)
    /\ \A k \in DOMAIN out.v \cap DOMAIN entriesOf(d) :
          /\ out.v[k].type = "string"
          /\ entriesOf(d)[k].type = "string" => out.v[k] = entriesOf(d)[k]
          /\ entriesOf(d)[k].type # "string"
                => out.v[k].s = JSONstringify(entriesOf(d)[k])

\* the data of every provider call in flight has string values only, and
\* normalizing it once more changes nothing
InflightDataAreStrings ==
    \A s \in Slots :
       inflight[s].kind \in {"multicast", "single"} =>
          /\ \A k \in DOMAIN inflight[s].data.v : inflight[s].data.v[k].type = "string"
          /\ ensureStringData(inflight[s].data) = inflight[s].data

\* C15: ensureStringData is total, keeps the key set of the payload, passes a
\* string value through as it is and replaces any other value by its JSON
\* text, so the data of every provider call of send-to-user and send-to-token
\* has string values only; applying it to its own result changes nothing.
C15_PayloadNormalized ==
    /\ [](/\ InflightDataAreStrings
          /\ ensureStringData(JObj([type |-> JStr("chat"), count |-> JNum(3)]))
                = JObj([type |-> JStr("chat"), count |-> JStr("3")])
          /\ \A d \in PayloadInputs :
                ensureStringData(ensureStringData(d)) = ensureStringData(d))
    /\ [][\A d \in PayloadInputs, a \in AndroidInputs :
             /\ \A u \in Users :
                   (SendToUser(u, d, a) /\ last' = Awaiting("send"))
                      => Normalized(d, inflight'[FirstFree].data)
             /\ \A t \in Tokens :
                   (SendToToken(t, d, a) /\ last' = Awaiting("sendToToken"))
                      => Normalized(d, inflight'[FirstFree].data)]_vars

----------------------------------------------------------------------------
(* Stale membership *)

\* C16: when a token of u's Set is registered by another user u2, it stays in
\* u's Set, is in u2's Set as well and its metadata names u2; and a send to a
\* user whose Set holds a token that another user owns by the metadata has
\* that token in its multicast list.
C16_StaleMembership ==
    [][/\ last'.op = "register" =>
            \A u, u2 \in Users, t \in Tokens :
               (u # u2 /\ t \in tokensOf(Registry, u) /\ Register(u2, t, Undefined, 0))
                  => /\ t \in tokensOf(RegistryNext, u)
                     /\ t \in tokensOf(RegistryNext, u2)
                     /\ metaByToken'[t].userId = u2
       /\ last'.op = "send" =>
            \A u \in Users, t \in Tokens, d \in PayloadInputs \ {JUndefined},
               a \in AndroidInputs :
               (/\ t \in tokensOf(Registry, u)
                /\ t \in DOMAIN metaByToken
                /\ metaByToken[t].userId # u
                /\ SendToUser(u, d, a))
                  => /\ inflight'[FirstFree].kind = "multicast"
                     /\ inflight'[FirstFree].userId = u
                     /\ t \in Elems(inflight'[FirstFree].tokens)]_vars

\* C16 witness: t1 is in the Sets of u1 and u2, its metadata names u2, and a
\* send to u1 is in flight with t1 in its list
C16_Witness ==
    /\ last = Awaiting("send")
    /\ "t1" \in tokensOf(Registry, "u1") \cap tokensOf(Registry, "u2")
    /\ "t1" \in DOMAIN metaByToken
    /\ metaByToken["t1"].userId = "u2"
    /\ \E s \in Slots :
          /\ inflight[s].kind = "multicast"
          /\ inflight[s].userId = "u1"
          /\ "t1" \in Elems(inflight[s].tokens)

----------------------------------------------------------------------------
(* Cleanup after a send *)

\* token t is in the same Sets before and after the step, those of users aside
SameHolders(t, aside) ==
    \A u \in Users \ aside :
       (t \in tokensOf(Registry, u)) <=> (t \in tokensOf(RegistryNext, u))

\* what C17 says of a send of call that completes with resp
C17_Post(call, resp) ==
    /\ \A i \in 1..Len(call.tokens) :
          LET t == call.tokens[i]
          IN  resp.responses[i] \in PermanentFailures =>
                 IF t \notin DOMAIN metaByToken
                 THEN /\ SameHolders(t, {})
                      /\ t \notin DOMAIN metaByToken'
                 ELSE LET owner == metaByToken[t].userId
                      IN  /\ t \notin tokensOf(RegistryNext, owner)
                          /\ t \notin DOMAIN metaByToken'
                          /\ SameHolders(t, {owner})
    /\ last'.status = 200
    /\ last'.body.successCount = resp.successCount
    /\ last'.body.failureCount = resp.failureCount

\* C17: when the response of a send is processed, a permanently-invalid token
\* is removed with the owner its metadata names at that time, not with the
\* user of the request: without metadata then, the token stays in every Set
\* that holds it; with metadata naming u2, it leaves u2's Set and loses its
\* metadata, and stays in any other Set; the reply carries the provider's
\* counts either way.
C17_CleanupByMetadataOwner ==
    [][last'.op = "send.resolved" =>
          \A s \in Slots :
             inflight[s].kind = "multicast" =>
                \A resp \in BatchResponses(inflight[s].tokens) :
                   SendResolvedWith(s, resp) => C17_Post(inflight[s], resp)]_vars

\* C17 witness: a send to u1 failed for its only token t1, which had lost its
\* metadata to another user's request by then: t1 is still in u1's Set
C17_Witness ==
    /\ last = Reply("send.resolved", 200,
                    [ok |-> TRUE, successCount |-> 0, failureCount |-> 1])
    /\ tokensByUser = [u \in {"u1"} |-> <<"t1">>]
    /\ metaByToken = EmptyMap

\* the metadata of token t is the same before and after the step
SameMetadata(t) ==
    /\ (t \in DOMAIN metaByToken) <=> (t \in DOMAIN metaByToken')
    /\ t \in DOMAIN metaByToken \cap DOMAIN metaByToken'
          => metaByToken'[t] = metaByToken[t]

\* C18: a send takes its token list from the user's Set in the step that
\* calls the provider, and no step of another request changes a list in
\* flight; the step that processes the response changes the registry only
\* for tokens of that list whose own response is a permanently-invalid
\* failure, and ends the request.  The request has no other step: the await
\* of the provider call is its only suspension point.
C18_SnapshotDecides ==
    [][/\ \A s \in Slots :
             (inflight[s].kind = "multicast" /\ inflight'[s].kind = "multicast")
                => inflight'[s] = inflight[s]
       /\ last' = Awaiting("send") =>
             /\ RegistryUnchanged
             /\ inflight'[FirstFree].kind = "multicast"
             /\ inflight'[FirstFree].tokens = tokensByUser[inflight'[FirstFree].userId]
             /\ \A s \in Slots \ {FirstFree} : inflight'[s] = inflight[s]
       /\ last'.op = "send.resolved" =>
             \A s \in Slots :
                inflight[s].kind = "multicast" =>
                   \A resp \in BatchResponses(inflight[s].tokens) :
                      SendResolvedWith(s, resp) =>
                         /\ inflight'[s] = Idle
                         /\ last'.status = 200
                         /\ \A t \in Tokens :
                               (~SameHolders(t, {}) \/ ~SameMetadata(t)) =>
                                  \E i \in 1..Len(inflight[s].tokens) :
                                     /\ inflight[s].tokens[i] = t
                                     /\ resp.responses[i] \in PermanentFailures]_vars

\* C18 witness: a send to u1 with two tokens came back with two failures after
\* u1 had unregistered both and u2 had registered t1: u2's t1 is untouched
C18_Witness ==
    /\ last = Reply("send.resolved", 200,
                    [ok |-> TRUE, successCount |-> 0, failureCount |-> 2])
    /\ tokensByUser = [u \in {"u2"} |-> <<"t1">>]
    /\ DOMAIN metaByToken = {"t1"}
    /\ metaByToken["t1"].userId = "u2"

----------------------------------------------------------------------------
(* Metadata and membership; frame of the registry requests *)

\* C19: in every reachable state a token with a metadata entry is a member of
\* the Set of the owner the entry names.
C19_OwnerHoldsToken ==
    \A t \in DOMAIN metaByToken :
       /\ metaByToken[t].userId \in DOMAIN tokensByUser
       /\ t \in Elems(tokensByUser[metaByToken[t].userId])

\* C19 witness: t1 went from u1 to u2 by a second registration and its
\* metadata names u2, whose Set holds it, while a send is in flight
C19_Witness ==
    /\ last = Reply("register", 200, Ok)
    /\ DOMAIN metaByToken = {"t1", "t2"}
    /\ metaByToken["t1"].userId = "u2"
    /\ holders("t1") = {"u1", "u2"}
    /\ metaByToken["t2"].userId = "u1"
    /\ \E s \in Slots : inflight[s].kind = "multicast"

\* registry r has the Set of every user but u, and the metadata of every
\* token but t, as the registry reg has them
FrameOf(reg, r, u, t) ==
    /\ \A u2 \in Users \ {u} :
          /\ (u2 \in DOMAIN r.tokensByUser) <=> (u2 \in DOMAIN reg.tokensByUser)
          /\ u2 \in DOMAIN reg.tokensByUser
                => r.tokensByUser[u2] = reg.tokensByUser[u2]
    /\ \A t2 \in Tokens \ {t} :
          /\ (t2 \in DOMAIN r.metaByToken) <=> (t2 \in DOMAIN reg.metaByToken)
          /\ t2 \in DOMAIN reg.metaByToken
                => r.metaByToken[t2] = reg.metaByToken[t2]

\* the step left the Set of every user but u as it was
OthersUntouched(u) ==
    \A u2 \in Users \ {u} : tokensOf(RegistryNext, u2) = tokensOf(Registry, u2)

\* C20: a register, update or unregister request with userId u leaves the Set
\* of every other user as it was; from every reachable state upsert(u, t) and
\* remove(u, t) leave the Set of every other user and the metadata of every
\* other token unchanged.
C20_OtherUsersUntouched ==
    /\ [](\A u \in Users, t \in Tokens :
             /\ FrameOf(Registry, removeToken(Registry, u, t), u, t)
             /\ \A p \in PlatformInputs, now \in Times :
                   FrameOf(Registry, upsertToken(Registry, u, t, p, now), u, t))
    /\ [][/\ last'.op = "register" =>
                \A u \in Users, t \in Tokens :
                   Register(u, t, Undefined, 0) => OthersUntouched(u)
          /\ last'.op = "update" =>
                \A u \in Users, t \in Tokens, o \in OldTokenInputs :
                   UpdateToken(u, t, o, Undefined, 0) => OthersUntouched(u)
          /\ last'.op = "unregister" =>
                \A u \in Users, t \in Tokens :
                   Unregister(u, t) => OthersUntouched(u)]_vars

\* C20 witness: u1 unregistered t1, which u2 holds as well: u2's Set still
\* has it, and u1 keeps its other token
C20_Witness ==
    /\ last = Reply("unregister", 200, Ok)
    /\ holders("t1") = {"u2"}
    /\ "t1" \notin DOMAIN metaByToken
    /\ tokensOf(Registry, "u1") = {"t2"}
    /\ "t2" \in DOMAIN metaByToken

====
